---------------------------- MODULE Spec2Model ----------------------------
(***************************************************************************)
(* Model of the mortgage calculation core: input validation (models.py),   *)
(* the payment formula, the month-by-month amortization loop and the rate  *)
(* / overpayment sweeps (service.py).                                      *)
(*                                                                         *)
(* Numbers.  The program computes on Python floats.  The model computes on *)
(* exact rationals (plus the three non-finite floats), so every statement  *)
(* checked here is a statement about the arithmetic the code writes down,  *)
(* free of binary rounding.  TLC's integers are 32 bits wide, so a         *)
(* rational is a pair of arbitrary-precision naturals, each a sequence of  *)
(* base-10^4 limbs, least significant first, without leading zero limbs.   *)
(***************************************************************************)
EXTENDS Integers, Sequences, FiniteSets

-----------------------------------------------------------------------------
(* Arbitrary-precision naturals.                                           *)

Base == 10 ^ 4

BZero == << >>

RECURSIVE FromNat(_)
FromNat(k) == IF k = 0 THEN << >> ELSE <<k % Base>> \o FromNat(k \div Base)

BOne == FromNat(1)

IsBig(a) ==
    /\ a \in Seq(0 .. Base - 1)
    /\ (a # << >> => a[Len(a)] # 0)

Limb(a, i) == IF i <= Len(a) THEN a[i] ELSE 0

Zeros(k) == [i \in 1 .. k |-> 0]

(* Every operation below walks the limbs by halving the range lo .. hi, so *)
(* that the depth of the evaluation grows with the logarithm of the length.*)

\* the highest index in lo .. hi holding a non-zero limb, or 0
RECURSIVE TopLimb(_, _, _)
TopLimb(a, lo, hi) ==
    IF lo > hi THEN 0
    ELSE IF lo = hi THEN (IF a[lo] # 0 THEN lo ELSE 0)
    ELSE LET mid == (lo + hi) \div 2
             up  == TopLimb(a, mid + 1, hi)
         IN  IF up # 0 THEN up ELSE TopLimb(a, lo, mid)

\* drop leading (most significant) zero limbs
Strip(a) == SubSeq(a, 1, TopLimb(a, 1, Len(a)))

\* limbs lo .. hi of a + b with carry c coming in: <<limbs, carry out>>
RECURSIVE AddRange(_, _, _, _, _)
AddRange(a, b, lo, hi, c) ==
    IF lo > hi THEN << << >>, c >>
    ELSE IF lo = hi
    THEN LET s == Limb(a, lo) + Limb(b, lo) + c
         IN  << <<s % Base>>, s \div Base >>
    ELSE LET mid == (lo + hi) \div 2
             low == AddRange(a, b, lo, mid, c)
         IN  IF low[2] >= 0
             THEN LET up == AddRange(a, b, mid + 1, hi, low[2])
                  IN  << low[1] \o up[1], up[2] >>
             ELSE << << >>, 0 >>

\* the number written by the limbs r[1] and the carry r[2] above them
WithCarry(r) == IF r[2] = 0 THEN r[1] ELSE r[1] \o <<r[2]>>

BAdd(a, b) ==
    WithCarry(AddRange(a, b, 1, IF Len(a) >= Len(b) THEN Len(a) ELSE Len(b), 0))

\* -1, 0, 1 as a < b, a = b, a > b on the limbs lo .. hi
RECURSIVE CmpRange(_, _, _, _)
CmpRange(a, b, lo, hi) ==
    IF lo > hi THEN 0
    ELSE IF lo = hi
    THEN (IF a[lo] < b[lo] THEN -1 ELSE IF a[lo] > b[lo] THEN 1 ELSE 0)
    ELSE LET mid == (lo + hi) \div 2
             up  == CmpRange(a, b, mid + 1, hi)
         IN  IF up # 0 THEN up ELSE CmpRange(a, b, lo, mid)

BCmp(a, b) ==
    IF Len(a) < Len(b) THEN -1
    ELSE IF Len(a) > Len(b) THEN 1
    ELSE CmpRange(a, b, 1, Len(a))

BLe(a, b) == BCmp(a, b) <= 0
BLt(a, b) == BCmp(a, b) < 0

\* limbs lo .. hi of a - b (a >= b) with borrow c coming in: <<limbs, borrow out>>
RECURSIVE SubRange(_, _, _, _, _)
SubRange(a, b, lo, hi, c) ==
    IF lo > hi THEN << << >>, c >>
    ELSE IF lo = hi
    THEN LET s == a[lo] - Limb(b, lo) - c
         IN  IF s < 0 THEN << <<s + Base>>, 1 >> ELSE << <<s>>, 0 >>
    ELSE LET mid == (lo + hi) \div 2
             low == SubRange(a, b, lo, mid, c)
         IN  IF low[2] >= 0
             THEN LET up == SubRange(a, b, mid + 1, hi, low[2])
                  IN  << low[1] \o up[1], up[2] >>
             ELSE << << >>, 0 >>

BSub(a, b) == Strip(SubRange(a, b, 1, Len(a), 0)[1])

\* limbs lo .. hi of a * m for one limb m, carry c coming in
RECURSIVE MulLimbRange(_, _, _, _, _)
MulLimbRange(a, m, lo, hi, c) ==
    IF lo > hi THEN << << >>, c >>
    ELSE IF lo = hi
    THEN LET s == a[lo] * m + c
         IN  << <<s % Base>>, s \div Base >>
    ELSE LET mid == (lo + hi) \div 2
             low == MulLimbRange(a, m, lo, mid, c)
         IN  IF low[2] >= 0
             THEN LET up == MulLimbRange(a, m, mid + 1, hi, low[2])
                  IN  << low[1] \o up[1], up[2] >>
             ELSE << << >>, 0 >>

MulLimb(a, m) ==
    IF m = 0 \/ a = << >> THEN << >>
    ELSE IF m = 1 THEN a
    ELSE WithCarry(MulLimbRange(a, m, 1, Len(a), 0))

ShiftUp(a, k) == IF a = << >> THEN << >> ELSE Zeros(k) \o a

\* a times the number written by the limbs lo .. hi of b
RECURSIVE MulRange(_, _, _, _)
MulRange(a, b, lo, hi) ==
    IF lo > hi THEN << >>
    ELSE IF lo = hi THEN MulLimb(a, b[lo])
    ELSE LET mid == (lo + hi) \div 2
         IN  BAdd(MulRange(a, b, lo, mid),
                  ShiftUp(MulRange(a, b, mid + 1, hi), mid - lo + 1))

BMul(a, b) ==
    IF a = << >> \/ b = << >> THEN << >>
    ELSE MulRange(IF Len(a) >= Len(b) THEN a ELSE b,
                  IF Len(a) >= Len(b) THEN b ELSE a,
                  1, IF Len(a) >= Len(b) THEN Len(b) ELSE Len(a))

Square(a) == BMul(a, a)

\* a ^ k by repeated squaring
RECURSIVE BPow(_, _)
BPow(a, k) ==
    IF k = 0 THEN BOne
    ELSE BMul(Square(BPow(a, k \div 2)), IF k % 2 = 0 THEN BOne ELSE a)

\* the largest q in lo .. hi with b * q <= r (b * lo <= r is given)
RECURSIVE QuotDigit(_, _, _, _)
QuotDigit(r, b, lo, hi) ==
    IF lo = hi THEN lo
    ELSE LET mid == (lo + hi + 1) \div 2
         IN  IF BLe(MulLimb(b, mid), r)
             THEN QuotDigit(r, b, mid, hi)
             ELSE QuotDigit(r, b, lo, mid - 1)

\* one step of the long division: <<quotient limb, remainder>> of r by b
QuotRem(r, b, q) == << <<q>>, BSub(r, MulLimb(b, q)) >>
DivDigit(r, b) == QuotRem(r, b, IF BLt(r, b) THEN 0 ELSE QuotDigit(r, b, 1, Base - 1))

\* long division by b # 0 over the limbs hi down to lo of a, the remainder
\* rem of the higher limbs coming in: <<quotient limbs lo .. hi, remainder>>
RECURSIVE DivRange(_, _, _, _, _)
DivRange(a, b, lo, hi, rem) ==
    IF lo > hi THEN << << >>, rem >>
    ELSE IF lo = hi
    THEN DivDigit(Strip(<<a[lo]>> \o rem), b)
    ELSE LET mid == (lo + hi) \div 2
             up  == DivRange(a, b, mid + 1, hi, rem)
         IN  IF Len(up[2]) >= 0
             THEN LET low == DivRange(a, b, lo, mid, up[2])
                  IN  << low[1] \o up[1], low[2] >>
             ELSE << << >>, << >> >>

StripQuot(qr) == << Strip(qr[1]), qr[2] >>

\* <<a div b, a mod b>> for b # 0
BDivMod(a, b) ==
    IF BLt(a, b) THEN << << >>, a >>
    ELSE StripQuot(DivRange(a, b, 1, Len(a), << >>))

BDiv(a, b) == BDivMod(a, b)[1]
BMod(a, b) == BDivMod(a, b)[2]
BDivides(b, a) == BMod(a, b) = << >>

-----------------------------------------------------------------------------
(* Numbers: the floats of the program.  A finite number is the exact       *)
(* rational (-1)^neg * n / d.  The denominator d is kept together with the *)
(* list f of the factors it was built from (d = f[1] * ... * f[Len(f)]),   *)
(* so that two numbers are brought to a common denominator without a       *)
(* division.  Two records may denote the same number: numbers are compared *)
(* with QEq, QLt, ..., never with =.  The non-finite floats are nan, inf   *)
(* and -inf.                                                               *)

Fin(neg, n, f, d) ==
    [kind |-> "fin", neg |-> neg /\ n # << >>, n |-> n, f |-> f, d |-> d]

NaN    == [kind |-> "nan",  neg |-> FALSE, n |-> << >>, f |-> << >>, d |-> BOne]
PosInf == [kind |-> "inf",  neg |-> FALSE, n |-> << >>, f |-> << >>, d |-> BOne]
NegInf == [kind |-> "-inf", neg |-> TRUE,  n |-> << >>, f |-> << >>, d |-> BOne]

\* the integer k
QInt(k) == Fin(k < 0, FromNat(IF k < 0 THEN -k ELSE k), << >>, BOne)

\* the fraction k / m, m > 0
QFrac(k, m) ==
    Fin(k < 0, FromNat(IF k < 0 THEN -k ELSE k), <<FromNat(m)>>, FromNat(m))

QZero == QInt(0)
QOne  == QInt(1)

\* math.isfinite
IsFinite(x) == x.kind = "fin"

IsZero(x) == x.n = << >>

RECURSIVE ProdRange(_, _, _)
ProdRange(f, lo, hi) ==
    IF lo > hi THEN BOne
    ELSE IF lo = hi THEN f[lo]
    ELSE LET mid == (lo + hi) \div 2
         IN  BMul(ProdRange(f, lo, mid), ProdRange(f, mid + 1, hi))

Prod(f) == ProdRange(f, 1, Len(f))

IsPrefix(f, g) == Len(f) <= Len(g) /\ SubSeq(g, 1, Len(f)) = f
Rest(f, g) == SubSeq(g, Len(f) + 1, Len(g))

\* what the numerator of x is multiplied by to bring x over the common
\* denominator of x and y
Scale(x, y) ==
    IF IsPrefix(x.f, y.f) THEN Prod(Rest(x.f, y.f))
    ELSE IF IsPrefix(y.f, x.f) THEN BOne
    ELSE y.d

\* the numerators xn, yn of x and y over a common denominator d (factors f)
Align(x, y) ==
    [xn |-> BMul(x.n, Scale(x, y)),
     yn |-> BMul(y.n, Scale(y, x)),
     f  |-> IF IsPrefix(x.f, y.f) THEN y.f
            ELSE IF IsPrefix(y.f, x.f) THEN x.f ELSE x.f \o y.f,
     d  |-> IF IsPrefix(x.f, y.f) THEN y.d
            ELSE IF IsPrefix(y.f, x.f) THEN x.d ELSE BMul(x.d, y.d)]

\* -1, 0, 1 as |x| < |y|, |x| = |y|, |x| > |y|
MagCmp(x, y) ==
    IF IsZero(x) THEN (IF IsZero(y) THEN 0 ELSE -1)
    ELSE IF IsZero(y) THEN 1
    ELSE BCmp(BMul(x.n, Scale(x, y)), BMul(y.n, Scale(y, x)))

\* -1, 0, 1 as x < y, x = y, x > y (finite x, y)
QCmp(x, y) ==
    IF x.neg /\ ~y.neg THEN -1
    ELSE IF ~x.neg /\ y.neg THEN 1
    ELSE (IF x.neg THEN -1 ELSE 1) * MagCmp(x, y)

QEq(x, y) == QCmp(x, y) = 0
QLt(x, y) == QCmp(x, y) < 0
QLe(x, y) == QCmp(x, y) <= 0
QGt(x, y) == QCmp(x, y) > 0
QGe(x, y) == QCmp(x, y) >= 0

QNeg(x) == Fin(~x.neg, x.n, x.f, x.d)

QAbs(x) == Fin(FALSE, x.n, x.f, x.d)

\* |p - q| for naturals p, q
BDiff(p, q) == IF BLe(q, p) THEN BSub(p, q) ELSE BSub(q, p)

\* x + y for non-zero x, y with the numerators a.xn, a.yn over a.d
AddAligned(x, y, a) ==
    IF x.neg = y.neg THEN Fin(x.neg, BAdd(a.xn, a.yn), a.f, a.d)
    ELSE Fin(IF BLe(a.yn, a.xn) THEN x.neg ELSE y.neg, BDiff(a.xn, a.yn), a.f, a.d)

QAdd(x, y) ==
    IF IsZero(x) THEN y
    ELSE IF IsZero(y) THEN x
    ELSE AddAligned(x, y, Align(x, y))

QSub(x, y) == QAdd(x, QNeg(y))

QMul(x, y) == Fin(x.neg # y.neg, BMul(x.n, y.n), x.f \o y.f, BMul(x.d, y.d))

\* x / y for y # 0
QDiv(x, y) ==
    IF IsPrefix(y.f, x.f)
    THEN Fin(x.neg # y.neg, x.n, Rest(y.f, x.f) \o <<y.n>>, BMul(Prod(Rest(y.f, x.f)), y.n))
    ELSE Fin(x.neg # y.neg, BMul(x.n, y.d), x.f \o <<y.n>>, BMul(x.d, y.n))

\* x ** k for a natural k
QPow(x, k) ==
    Fin(x.neg /\ k % 2 = 1, BPow(x.n, k),
        [i \in 1 .. k * Len(x.f) |-> x.f[((i - 1) % Len(x.f)) + 1]], BPow(x.d, k))

\* Python's min(x, y) and max(x, y): the first argument on a tie
QMin(x, y) == IF QLt(y, x) THEN y ELSE x
QMax(x, y) == IF QGt(y, x) THEN y ELSE x

\* floor(x) and ceil(x) of a non-negative x, as naturals
QFloor(x) == BDiv(x.n, x.d)
RoundUp(qr) == IF qr[2] = << >> THEN qr[1] ELSE BAdd(qr[1], BOne)
QCeil(x) == RoundUp(BDivMod(x.n, x.d))

\* a number is well formed: its factors multiply to its denominator
IsNumber(x) ==
    /\ x.kind \in {"fin", "nan", "inf", "-inf"}
    /\ x.kind = "fin" => /\ IsBig(x.n) /\ IsBig(x.d) /\ x.d # << >>
                         /\ Prod(x.f) = x.d

-----------------------------------------------------------------------------
(* models.py: the input records and their validation.                      *)

MinTermYears   == 1
MaxTermYears   == 50
MaxRatePercent == 30
MaxGridSteps   == 300

\* 1.5, the cap on loan_amount / property_value
MaxLoanToValue == QFrac(3, 2)

MortgageInputs(pv, loan, rate, term, ins, rent, over) ==
    [property_value      |-> pv,
     loan_amount         |-> loan,
     annual_rate_percent |-> rate,
     term_years          |-> term,
     annual_insurance    |-> ins,
     annual_ground_rent  |-> rent,
     annual_overpayment  |-> over]

ScenarioRange(low, high, step) ==
    [low_rate |-> low, high_rate |-> high, step |-> step]

\* the outcome of a call: a returned value, or a raised ValueError
NoError == <<"", "">>
Returned(v) == [ok |-> TRUE, val |-> v, error |-> NoError]
Raised(msg) == [ok |-> FALSE, val |-> << >>, error |-> msg]

ensure_finite_non_negative(value, label) ==
    IF ~IsFinite(value) THEN Raised(<<label, "must be finite">>)
    ELSE IF QLt(value, QZero) THEN Raised(<<label, "cannot be negative">>)
    ELSE Returned(value)

\* the first raised outcome of a sequence of outcomes, or the last outcome
FirstRaised(checks) ==
    IF \E i \in 1 .. Len(checks) : ~checks[i].ok
    THEN checks[CHOOSE i \in 1 .. Len(checks) :
                    /\ ~checks[i].ok
                    /\ \A j \in 1 .. i - 1 : checks[j].ok]
    ELSE checks[Len(checks)]

\* lines 44-57: the six checked fields, in the order the code checks them
CheckedFields(inputs) ==
    <<ensure_finite_non_negative(inputs.property_value, "Property value"),
      ensure_finite_non_negative(inputs.loan_amount, "Loan amount"),
      ensure_finite_non_negative(inputs.annual_rate_percent, "Annual rate"),
      ensure_finite_non_negative(inputs.annual_insurance, "Annual insurance"),
      ensure_finite_non_negative(inputs.annual_ground_rent, "Annual recurring property fee"),
      ensure_finite_non_negative(inputs.annual_overpayment, "Annual overpayment")>>

\* the checks of the inputs without the one on the loan to value
CheckInputs_no_loan_to_value(term_years, property_value, loan_amount, annual_rate, annual_insurance, annual_ground_rent, annual_overpayment) ==
    IF term_years < MinTermYears \/ term_years > MaxTermYears
    THEN Raised(<<"Term", "must be between 1 and 50 years">>)
    ELSE IF QGt(annual_rate, QInt(MaxRatePercent))
    THEN Raised(<<"Annual rate", "appears unrealistic (>30%)">>)
    ELSE Returned(MortgageInputs(property_value, loan_amount, annual_rate, term_years,
                                 annual_insurance, annual_ground_rent, annual_overpayment))

\* lines 59-76, on the checked values
CheckInputs(term_years, property_value, loan_amount, annual_rate, annual_insurance, annual_ground_rent, annual_overpayment) ==
    IF term_years < MinTermYears \/ term_years > MaxTermYears
    THEN Raised(<<"Term", "must be between 1 and 50 years">>)
    ELSE IF QGt(annual_rate, QInt(MaxRatePercent))
    THEN Raised(<<"Annual rate", "appears unrealistic (>30%)">>)
    ELSE IF /\ QGt(property_value, QZero)
            /\ QGt(loan_amount, QMul(property_value, MaxLoanToValue))
    THEN Raised(<<"Loan amount", "is too high relative to property value">>)
    ELSE Returned(MortgageInputs(property_value, loan_amount, annual_rate, term_years,
                                 annual_insurance, annual_ground_rent, annual_overpayment))

ValidateChecked(inputs, fields) ==
    IF ~FirstRaised(fields).ok THEN FirstRaised(fields)
    ELSE CheckInputs(inputs.term_years, fields[1].val, fields[2].val, fields[3].val,
                     fields[4].val, fields[5].val, fields[6].val)

validate_inputs(inputs) == ValidateChecked(inputs, CheckedFields(inputs))

\* lines 80-82: the three checked fields
CheckedRange(scenario) ==
    <<ensure_finite_non_negative(scenario.low_rate, "Minimum scenario rate"),
      ensure_finite_non_negative(scenario.high_rate, "Maximum scenario rate"),
      ensure_finite_non_negative(scenario.step, "Scenario step")>>

\* the checks of the range without the one on the size of the grid
CheckRange_no_grid_cap(low, high, step) ==
    IF QLe(step, QZero)
    THEN Raised(<<"Scenario step", "must be greater than zero">>)
    ELSE IF QGt(high, QInt(MaxRatePercent))
    THEN Raised(<<"Scenario rates", "above 30% are not allowed">>)
    ELSE Returned(ScenarioRange(low, high, step))

\* lines 84-96, on low = min(low_rate, high_rate) and high = max(low_rate, high_rate)
CheckRange(low, high, step) ==
    IF QLe(step, QZero)
    THEN Raised(<<"Scenario step", "must be greater than zero">>)
    ELSE IF QGt(high, QInt(MaxRatePercent))
    THEN Raised(<<"Scenario rates", "above 30% are not allowed">>)
    ELSE IF QGt(QDiv(QSub(high, low), step), QInt(MaxGridSteps))
    THEN Raised(<<"Scenario grid", "is too large">>)
    ELSE Returned(ScenarioRange(low, high, step))

\* the range checked as given, low and high not put in order
ValidateCheckedRange_as_given(fields) ==
    IF ~FirstRaised(fields).ok THEN FirstRaised(fields)
    ELSE CheckRange(fields[1].val, fields[2].val, fields[3].val)

ValidateCheckedRange(fields) ==
    IF ~FirstRaised(fields).ok THEN FirstRaised(fields)
    ELSE CheckRange(QMin(fields[1].val, fields[2].val), QMax(fields[1].val, fields[2].val),
                    fields[3].val)

validate_scenario_range(scenario) == ValidateCheckedRange(CheckedRange(scenario))

-----------------------------------------------------------------------------
(* service.py: the payment formula.                                        *)

MonthsPerYear == 12
PercentScale  == 100

\* annual_rate_percent / 100 / 12
MonthlyRate(annual_rate_percent) ==
    QDiv(QDiv(annual_rate_percent, QInt(PercentScale)), QInt(MonthsPerYear))

\* principal * (r * g) / (g - 1), where g = (1 + r) ** n
Annuity(principal, r, g) == QDiv(QMul(principal, QMul(r, g)), QSub(g, QOne))

\* the payment with the guard on the number of payments only
PaymentOver_guard_on_term_only(principal, r, n) ==
    IF n <= 0 THEN QZero
    ELSE IF QEq(r, QZero) THEN QDiv(principal, QInt(n))
    ELSE Annuity(principal, r, QPow(QAdd(QOne, r), n))

\* lines 19-24, for the monthly rate r and the number n of payments
PaymentOver(principal, r, n) ==
    IF QLe(principal, QZero) \/ n <= 0 THEN QZero
    ELSE IF QEq(r, QZero) THEN QDiv(principal, QInt(n))
    ELSE Annuity(principal, r, QPow(QAdd(QOne, r), n))

\* the payment formula without the interest: principal / n at every rate
monthly_payment_straight_line(principal, annual_rate_percent, term_years) ==
    IF QLe(principal, QZero) THEN QZero
    ELSE QDiv(principal, QInt(term_years * MonthsPerYear))

monthly_payment(principal, annual_rate_percent, term_years) ==
    PaymentOver(principal, MonthlyRate(annual_rate_percent), term_years * MonthsPerYear)

-----------------------------------------------------------------------------
(* service.py: amortization_schedule, one loop iteration per step.         *)

VARIABLES
    call,              \* the public operation that was called
    inputs,            \* its MortgageInputs argument
    pc,                \* where the call stands
    error,             \* the ValueError it raised, or NoError
    checked,           \* amortization_schedule: the validated inputs
    balance,
    monthly_rate,
    standard_monthly,
    rows,              \* the schedule rows emitted so far
    month,
    total_interest,
    total_principal,
    total_overpay,
    max_months,
    stop,              \* what ended the loop: "balance", "cap" or "stall"
    scenario_range,    \* the ScenarioRange argument of a sweep
    annual_overpayment_options, \* build_heatmap_data: the overpayment levels
    base,              \* a sweep's validated inputs (its local "checked")
    rates,             \* a sweep's validated range
    values,            \* a sweep's rate grid, each rate in units of 0.0001
    vi,                \* the grid point the sweep is at
    oi,                \* build_heatmap_data: the overpayment level it is at
    scenario_inputs,   \* scenario_result: the inputs it simulates
    results,           \* a sweep's rows (its local "rows")
    returned,          \* the value returned by a call that returns no table
    schedule,          \* app.py: the schedule of the inputs
    summary,           \* app.py: its summary
    baseline_schedule, \* app.py: the schedule without overpayment
    baseline_summary,  \* app.py: its summary
    monthly_base,      \* app.py: the monthly payment shown
    kpi,               \* kpi_row: interest_saved and years_saved
    annual             \* app.py: the annual view of the schedule

amortVars == <<checked, balance, monthly_rate, standard_monthly, rows, month,
               total_interest, total_principal, total_overpay, max_months, stop>>

sweepVars == <<scenario_range, annual_overpayment_options, base, rates, values, vi, oi,
               scenario_inputs, results>>

appVars == <<schedule, summary, baseline_schedule, baseline_summary, monthly_base, kpi, annual>>

vars == <<call, inputs, pc, error, amortVars, sweepVars, returned, appVars>>

HardCapMonths  == 1200
StallCapMonths == 600

\* 1e-8 and 1e-9
BalanceEps   == QFrac(1, 10 ^ 8)
PrincipalEps == QFrac(1, 10 ^ 9)

\* the year counted from the months completed
YearOf_completed_months(m) == m \div MonthsPerYear + 1

\* math.ceil(month / 12)
YearOf(m) == (m + MonthsPerYear - 1) \div MonthsPerYear

\* one month short of the loop's bound
LoopCondition_one_month_short(bal, m, maxm) ==
    QGt(bal, BalanceEps) /\ m < maxm - 1

\* the while condition
LoopCondition(bal, m, maxm) ==
    QGt(bal, BalanceEps) /\ m < maxm + HardCapMonths

\* the principal component without the cap at the balance
PrincipalComponent_uncapped(bal, rate, standard, interest) ==
    IF QEq(rate, QZero) THEN standard ELSE QMax(QZero, QSub(standard, interest))

PrincipalComponent(bal, rate, standard, interest) ==
    IF QEq(rate, QZero)
    THEN QMin(bal, standard)
    ELSE QMin(bal, QMax(QZero, QSub(standard, interest)))

\* the overpayment without the test on the month
OverpaymentAt_every_month(annual_overpayment, m, balance_after_payment) ==
    IF QGt(annual_overpayment, QZero) /\ QGt(balance_after_payment, QZero)
    THEN QMin(annual_overpayment, balance_after_payment)
    ELSE QZero

\* an overpayment above the balance is dropped, not capped
OverpaymentAt_dropped_above_balance(annual_overpayment, m, balance_after_payment) ==
    IF /\ QGt(annual_overpayment, QZero)
       /\ m % MonthsPerYear = 0
       /\ QGt(balance_after_payment, QZero)
       /\ QLe(annual_overpayment, balance_after_payment)
    THEN annual_overpayment
    ELSE QZero

OverpaymentAt(annual_overpayment, m, balance_after_payment) ==
    IF /\ QGt(annual_overpayment, QZero)
       /\ m % MonthsPerYear = 0
       /\ QGt(balance_after_payment, QZero)
    THEN QMin(annual_overpayment, balance_after_payment)
    ELSE QZero

\* the break test without the 600 months of margin
StallBreak_at_term(m, maxm, lastPrincipal) ==
    m > maxm /\ QLt(QAbs(lastPrincipal), PrincipalEps)

\* the break test after a row
StallBreak(m, maxm, lastPrincipal) ==
    m > maxm + StallCapMonths /\ QLt(QAbs(lastPrincipal), PrincipalEps)

\* amortization_schedule is called by the user, or by scenario_result
Nested == call # "amortization_schedule"

\* where amortization_schedule returns to
ReturnPc == IF Nested THEN "scenario" ELSE "done"

\* lines 27-39, for inputs that pass validation
BeginSchedule(valid) ==
    /\ checked' = valid
    /\ balance' = valid.loan_amount
    /\ monthly_rate' = MonthlyRate(valid.annual_rate_percent)
    /\ standard_monthly' = monthly_payment(valid.loan_amount, valid.annual_rate_percent,
                                           valid.term_years)
    /\ rows' = << >>
    /\ month' = 0
    /\ total_interest' = QZero
    /\ total_principal' = QZero
    /\ total_overpay' = QZero
    /\ max_months' = valid.term_years * MonthsPerYear
    /\ stop' = "none"

CallAmortization ==
    /\ pc = IF Nested THEN "simulate" ELSE "call"
    /\ \E v \in {validate_inputs(IF Nested THEN scenario_inputs ELSE inputs)} :
          IF v.ok
          THEN /\ BeginSchedule(v.val)
               /\ pc' = "loop"
               /\ UNCHANGED error
          ELSE /\ pc' = "raised"
               /\ error' = v.error
               /\ UNCHANGED amortVars
    /\ UNCHANGED <<call, inputs, sweepVars, returned, appVars>>

\* the row appended without advancing the total of the principal
EmitRow_principal_total_kept(row) ==
    /\ month' = row.Month
    /\ total_interest' = row.CumulativeInterest
    /\ total_principal' = total_principal
    /\ total_overpay' = row.CumulativeOverpayment
    /\ rows' = Append(rows, row)
    /\ balance' = row.EndingBalance
    /\ IF StallBreak(row.Month, max_months, row.Principal)
       THEN pc' = ReturnPc /\ stop' = "stall"
       ELSE pc' = "loop" /\ stop' = stop

\* lines 58-81: the totals and the balance are advanced, the row is appended
EmitRow(row) ==
    /\ month' = row.Month
    /\ total_interest' = row.CumulativeInterest
    /\ total_principal' = row.CumulativePrincipal
    /\ total_overpay' = row.CumulativeOverpayment
    /\ rows' = Append(rows, row)
    /\ balance' = row.EndingBalance
    /\ IF StallBreak(row.Month, max_months, row.Principal)
       THEN pc' = ReturnPc /\ stop' = "stall"
       ELSE pc' = "loop" /\ stop' = stop

LoopStep ==
    /\ pc = "loop"
    /\ LoopCondition(balance, month, max_months)
    /\ \E m \in {month + 1}, interest \in {QMul(balance, monthly_rate)} :
       \E principal_component \in {PrincipalComponent(balance, monthly_rate,
                                                      standard_monthly, interest)} :
       \E after_principal \in {QMax(QZero, QSub(balance, principal_component))} :
       \E overpayment \in {OverpaymentAt(checked.annual_overpayment, m, after_principal)} :
          EmitRow([Month                 |-> m,
                   Year                  |-> YearOf(m),
                   StartingBalance       |-> balance,
                   Payment               |-> QAdd(principal_component, interest),
                   Interest              |-> interest,
                   Principal             |-> principal_component,
                   Overpayment           |-> overpayment,
                   EndingBalance         |-> QSub(after_principal, overpayment),
                   CumulativeInterest    |-> QAdd(total_interest, interest),
                   CumulativePrincipal   |-> QAdd(total_principal, principal_component),
                   CumulativeOverpayment |-> QAdd(total_overpay, overpayment)])
    /\ UNCHANGED <<call, inputs, error, checked, monthly_rate, standard_monthly, max_months,
                   sweepVars, returned, appVars>>

\* the while condition fails: return pd.DataFrame(rows)
LoopExit ==
    /\ pc = "loop"
    /\ ~LoopCondition(balance, month, max_months)
    /\ pc' = ReturnPc
    /\ stop' = IF QGt(balance, BalanceEps) THEN "cap" ELSE "balance"
    /\ UNCHANGED <<call, inputs, error, checked, balance, monthly_rate, standard_monthly,
                   rows, month, total_interest, total_principal, total_overpay, max_months,
                   sweepVars, returned, appVars>>

-----------------------------------------------------------------------------
(* The calls checked: amortization_schedule on a bounded set of inputs.    *)

TermBound    == 2
LoanBound    == 2
OverpayBound == 2

\* annual rates in percent: none, two usual ones, the highest accepted, one refused
AmortRates ==
    {QInt(0), QFrac(7, 2), QInt(6), QInt(MaxRatePercent), QInt(MaxRatePercent + 5)}

\* loan amounts: none, one below the loop's 1e-8 threshold, multiples of 600
AmortLoans == {QFrac(5, 10 ^ 9)} \cup {QInt(600 * k) : k \in 0 .. LoanBound}

\* annual overpayments: none, and 50, 500, ...
AmortOverpayments == {QInt(0)} \cup {QInt(5 * 10 ^ k) : k \in 1 .. OverpayBound}

AmortInputs ==
    {MortgageInputs(QInt(0), loan, rate, term, QInt(0), QInt(0), over) :
        loan \in AmortLoans, rate \in AmortRates,
        term \in 1 .. TermBound, over \in AmortOverpayments}

InitFrame ==
    /\ base = << >>
    /\ rates = << >>
    /\ values = << >>
    /\ vi = 0
    /\ oi = 0
    /\ scenario_inputs = << >>
    /\ results = << >>
    /\ returned = << >>
    /\ schedule = << >>
    /\ summary = << >>
    /\ baseline_schedule = << >>
    /\ baseline_summary = << >>
    /\ monthly_base = << >>
    /\ kpi = << >>
    /\ annual = << >>
    /\ checked = << >>
    /\ balance = QZero
    /\ monthly_rate = QZero
    /\ standard_monthly = QZero
    /\ rows = << >>
    /\ month = 0
    /\ total_interest = QZero
    /\ total_principal = QZero
    /\ total_overpay = QZero
    /\ max_months = 0
    /\ stop = "none"

Init ==
    /\ call = "amortization_schedule"
    /\ inputs \in AmortInputs
    /\ scenario_range = << >>
    /\ annual_overpayment_options = << >>
    /\ pc = "call"
    /\ error = NoError
    /\ InitFrame

Next ==
    \/ CallAmortization
    \/ LoopStep
    \/ LoopExit

Spec == Init /\ [][Next]_vars

-----------------------------------------------------------------------------
(* Properties of amortization_schedule.                                    *)

\* 1e-4, the tolerance of test_amortization_schedule_finishes
PayoffTolerance == QFrac(1, 10 ^ 4)

LastRow == rows[Len(rows)]

\* the returned schedule is empty, or ends on a balance within 1e-4 of zero
PaidOff ==
    rows # << >> => QLe(QAbs(LastRow.EndingBalance), PayoffTolerance)

\* C1: for accepted inputs the loop of amortization_schedule terminates: every
\* iteration adds one to month or leaves the loop, and month never exceeds
\* term_years * 12 + 1200, so the iterations are finitely many.  A returned
\* schedule that is not empty ends on an Ending Balance within 1e-4 of zero.
C1_TerminatesPaidOff ==
    /\ [][pc = "loop" => (pc' = "loop" /\ month' = month + 1) \/ pc' = "done"]_vars
    /\ [](pc = "loop" => month <= checked.term_years * MonthsPerYear + HardCapMonths)
    /\ [](pc = "done" => PaidOff)

\* a schedule over the full term at a positive rate was returned, paid off
C1_Witness ==
    /\ pc = "done"
    /\ Len(rows) = max_months
    /\ QGt(checked.annual_rate_percent, QZero)
    /\ QLe(QAbs(LastRow.EndingBalance), PayoffTolerance)

\* C2: for accepted inputs with a positive loan the schedule reaches its end
\* within the nominal term: no row has a Month beyond term_years * 12, and the
\* loop is ended by the balance test, never by the stall stop or the hard cap.
C2_WithinTerm ==
    (pc \in {"loop", "done"} /\ QGt(checked.loan_amount, QZero)) =>
        /\ month <= checked.term_years * MonthsPerYear
        /\ rows # << >> => LastRow.Month <= checked.term_years * MonthsPerYear
        /\ stop \in {"none", "balance"}
        /\ pc = "done" => stop = "balance"

\* a loan at a positive rate without overpayment was paid off by the balance
\* test in the last month of its term
C2_Witness ==
    /\ pc = "done"
    /\ stop = "balance"
    /\ rows # << >>
    /\ QGt(checked.loan_amount, QZero)
    /\ QGt(checked.annual_rate_percent, QZero)
    /\ IsZero(checked.annual_overpayment)
    /\ LastRow.Month = checked.term_years * MonthsPerYear

\* the balance left after a row's scheduled principal
AfterPrincipal(row) == QSub(row.StartingBalance, row.Principal)

\* the overpayment rule on one row, for the annual overpayment a
OverpaymentRule(row, a) ==
    /\ ~IsZero(row.Overpayment) <=>
          /\ QGt(a, QZero)
          /\ row.Month % 12 = 0
          /\ QGt(AfterPrincipal(row), QZero)
    /\ ~IsZero(row.Overpayment) =>
          QEq(row.Overpayment, QMin(a, AfterPrincipal(row)))
    /\ QGe(row.EndingBalance, QZero)

\* C3: in every row of a returned schedule, Overpayment is non-zero exactly
\* when annual_overpayment > 0, Month is a multiple of 12 and the balance
\* after the scheduled principal is > 0; it is then the smaller of
\* annual_overpayment and that balance, and Ending Balance is never negative.
C3_OverpaymentRule ==
    pc = "done" =>
        \A i \in 1 .. Len(rows) : OverpaymentRule(rows[i], checked.annual_overpayment)

\* a returned schedule has a row whose overpayment was cut to the balance
\* left, and a row in a month that is no multiple of 12 without overpayment
C3_Witness ==
    /\ pc = "done"
    /\ \E i \in 1 .. Len(rows) :
          /\ ~IsZero(rows[i].Overpayment)
          /\ QLt(rows[i].Overpayment, checked.annual_overpayment)
          /\ rows[i].Month % 12 = 0
    /\ \E i \in 1 .. Len(rows) :
          /\ IsZero(rows[i].Overpayment)
          /\ QGt(AfterPrincipal(rows[i]), QZero)

-----------------------------------------------------------------------------
(* service.py: the rate grid of the sweeps.  np.round(x, 4) is a whole      *)
(* number of ten-thousandths: a grid value is held as that whole number.   *)

RoundDecimals == 4
RateUnit == 10 ^ RoundDecimals

\* the natural number written by the limbs a (a short one)
RECURSIVE ToNat(_)
ToNat(a) == IF a = << >> THEN 0 ELSE a[1] + Base * ToNat(Tail(a))

\* q, or q + 1, as the fraction left over is below, or above, one half
\* (c < 0, c > 0); the even one of the two on a tie (c = 0)
Nearest(q, c) == IF c > 0 THEN q + 1 ELSE IF c < 0 THEN q ELSE q + (q % 2)

\* the whole number nearest to qr[1] + qr[2] / d, ties to even
HalfEven(qr, d) == Nearest(ToNat(qr[1]), BCmp(BAdd(qr[2], qr[2]), d))

\* np.round(x, 4) for x >= 0, in ten-thousandths
Round4(x) == HalfEven(BDivMod(BMul(x.n, FromNat(RateUnit)), x.d), x.d)

\* float(rate) of a grid value
RateOf(units) ==
    IF units % RateUnit = 0 THEN QInt(units \div RateUnit) ELSE QFrac(units, RateUnit)

\* len(np.arange(start, limit, step)): ceil((limit - start) / step), or 0
ArangeLen(start, limit, step) ==
    IF QLe(limit, start) THEN 0 ELSE ToNat(QCeil(QDiv(QSub(limit, start), step)))

\* np.arange(start, stop, step)[i - 1]: start + (i - 1) * step
ArangeAt(start, step, i) == QAdd(start, QMul(QInt(i - 1), step))

\* the array of the values f[1], ..., f[n], each computed once
Array(f) == f \o << >>

\* np.arange without the half step that is added to the stop
RateGrid_stop_at_high(r) ==
    Array([i \in 1 .. ArangeLen(r.low_rate, r.high_rate, r.step) |->
              Round4(ArangeAt(r.low_rate, r.step, i))])

\* np.round(np.arange(low_rate, high_rate + step / 2, step), 4)
RateGrid(r) ==
    Array([i \in 1 .. ArangeLen(r.low_rate, QAdd(r.high_rate, QDiv(r.step, QInt(2))),
                                r.step) |->
              Round4(ArangeAt(r.low_rate, r.step, i))])

\* the place of s[j] among the values of s in ascending order
Rank(s, j) ==
    Cardinality({k \in 1 .. Len(s) : s[k] < s[j] \/ (s[k] = s[j] /\ k <= j)})

Ranks(s) == Array([j \in 1 .. Len(s) |-> Rank(s, j)])

Place(s, ranks) ==
    Array([i \in 1 .. Len(s) |-> s[CHOOSE j \in 1 .. Len(s) : ranks[j] = i]])

\* the values of s from the last to the first
Sort_reversed(s) == [i \in 1 .. Len(s) |-> s[Len(s) + 1 - i]]

\* np.sort
Sort(s) == CHOOSE sorted \in {Place(t, Ranks(t)) : t \in {Array(s)}} : TRUE

-----------------------------------------------------------------------------
(* service.py: summarize_schedule and scenario_result.                     *)

\* the one element of a set of one element
The(S) == CHOOSE x \in S : TRUE

\* acc + table[lo][column] + ... + table[hi][column], added in row order
RECURSIVE ColumnSum(_, _, _, _, _)
ColumnSum(table, column, lo, hi, acc) ==
    IF lo > hi THEN acc
    ELSE IF lo = hi THEN QAdd(acc, table[lo][column])
    ELSE The({ColumnSum(table, column, (lo + hi) \div 2 + 1, hi, first_half) :
                 first_half \in {ColumnSum(table, column, lo, (lo + hi) \div 2, acc)}})

\* schedule[column].sum()
Total(table, column) == ColumnSum(table, column, 1, Len(table), QZero)

\* the larger of two months
Later(m1, m2) == IF m1 >= m2 THEN m1 ELSE m2

\* schedule["Month"].max() over the rows lo .. hi
RECURSIVE MaxMonth(_, _, _)
MaxMonth(table, lo, hi) ==
    IF lo = hi THEN table[lo].Month
    ELSE Later(MaxMonth(table, lo, (lo + hi) \div 2),
               MaxMonth(table, (lo + hi) \div 2 + 1, hi))

\* lines 86-94
EmptySummary ==
    [months              |-> QZero,
     years               |-> QZero,
     total_interest      |-> QZero,
     total_paid_to_bank  |-> QZero,
     total_overpayment   |-> QZero,
     all_in_housing_cost |-> QZero]

\* the summary with a total paid to the bank that leaves the overpayments out
Summary_without_overpayments(months, years, interest_sum, payment_sum, overpayment_sum, annual_costs) ==
    [months              |-> months,
     years               |-> years,
     total_interest      |-> interest_sum,
     total_paid_to_bank  |-> payment_sum,
     total_overpayment   |-> overpayment_sum,
     all_in_housing_cost |-> QAdd(payment_sum, QMul(annual_costs, years))]

\* lines 100-110, with years = months / 12
Summary(months, years, interest_sum, payment_sum, overpayment_sum, annual_costs) ==
    [months              |-> months,
     years               |-> years,
     total_interest      |-> interest_sum,
     total_paid_to_bank  |-> QAdd(payment_sum, overpayment_sum),
     total_overpayment   |-> overpayment_sum,
     all_in_housing_cost |-> QAdd(QAdd(payment_sum, overpayment_sum),
                                  QMul(annual_costs, years))]

\* lines 96-110, for the last month
SummaryAt(table, last, annual_costs) ==
    Summary(QInt(last), QDiv(QInt(last), QInt(MonthsPerYear)), Total(table, "Interest"),
            Total(table, "Payment"), Total(table, "Overpayment"), annual_costs)

summarize_schedule(table, annual_costs) ==
    IF table = << >> THEN EmptySummary
    ELSE SummaryAt(table, MaxMonth(table, 1, Len(table)), annual_costs)

\* lines 136-146: the inputs scenario_result hands to validate_inputs
ScenarioInputs(base_inputs, rate, annual_overpayment) ==
    MortgageInputs(base_inputs.property_value, base_inputs.loan_amount, rate,
                   base_inputs.term_years, base_inputs.annual_insurance,
                   base_inputs.annual_ground_rent, annual_overpayment)

\* lines 152-166: the result of scenario_result (without its "schedule" entry)
ScenarioResult(si, rate, annual_overpayment, totals) ==
    [rate               |-> rate,
     annual_overpayment |-> annual_overpayment,
     monthly_payment    |-> monthly_payment(si.loan_amount, si.annual_rate_percent,
                                            si.term_years),
     years              |-> totals.years,
     months             |-> totals.months,
     interest           |-> totals.total_interest,
     paid_to_bank       |-> totals.total_paid_to_bank,
     all_in             |-> totals.all_in_housing_cost]

\* lines 148-151
ScenarioSummary(si, table) ==
    summarize_schedule(table, QAdd(si.annual_insurance, si.annual_ground_rent))

-----------------------------------------------------------------------------
(* service.py: scenario_analysis and build_heatmap_data.  One step of a    *)
(* sweep validates the inputs of a scenario; amortization_schedule then    *)
(* runs as above; the step after it appends the row of the scenario.        *)

IsSweep == call \in {"scenario_analysis", "build_heatmap_data"}

\* scenario_analysis sorts its grid, build_heatmap_data does not
SweepGrid(r) == IF call = "scenario_analysis" THEN Sort(RateGrid(r)) ELSE RateGrid(r)

\* the overpayment of the base inputs, whatever the sweep
LevelAt_base == base.annual_overpayment

\* the annual overpayment of the scenario the sweep is at
LevelAt ==
    IF call = "scenario_analysis" THEN base.annual_overpayment
    ELSE annual_overpayment_options[oi]

\* the loops have a scenario left to run
Pending ==
    /\ vi <= Len(values)
    /\ call = "build_heatmap_data" => annual_overpayment_options # << >>

\* the row scenario_analysis appends
ScenarioRow(result) ==
    [Rate           |-> result.rate,
     MonthlyPayment |-> result.monthly_payment,
     Years          |-> result.years,
     Months         |-> result.months,
     TotalInterest  |-> result.interest,
     TotalPaid      |-> result.paid_to_bank,
     AllIn          |-> result.all_in]

\* the row build_heatmap_data appends
HeatmapRow(result) ==
    [Rate              |-> result.rate,
     AnnualOverpayment |-> result.annual_overpayment,
     Years             |-> result.years,
     TotalInterest     |-> result.interest]

SweepRow(result) ==
    IF call = "scenario_analysis" THEN ScenarioRow(result) ELSE HeatmapRow(result)

\* lines 173-179 and 202-208: both validations, then the grid
CallSweep ==
    /\ pc = "call"
    /\ IsSweep
    /\ \E v \in {validate_inputs(inputs)} :
       \E r \in {IF v.ok THEN validate_scenario_range(scenario_range) ELSE v} :
          IF r.ok
          THEN /\ base' = v.val
               /\ rates' = r.val
               /\ values' = SweepGrid(r.val)
               /\ vi' = 1
               /\ oi' = 1
               /\ results' = << >>
               /\ pc' = "sweep"
               /\ UNCHANGED error
          ELSE /\ pc' = "raised"
               /\ error' = r.error
               /\ UNCHANGED <<base, rates, values, vi, oi, results>>
    /\ UNCHANGED <<call, inputs, scenario_range, annual_overpayment_options,
                   scenario_inputs, amortVars, returned, appVars>>

\* scenario_result, lines 136-147: validate the scenario, call the simulation
ScenarioStep ==
    /\ pc = "sweep"
    /\ Pending
    /\ \E v \in {validate_inputs(ScenarioInputs(base, RateOf(values[vi]), LevelAt))} :
          IF v.ok
          THEN /\ scenario_inputs' = v.val
               /\ pc' = "simulate"
               /\ UNCHANGED error
          ELSE /\ pc' = "raised"
               /\ error' = v.error
               /\ UNCHANGED scenario_inputs
    /\ UNCHANGED <<call, inputs, scenario_range, annual_overpayment_options, base, rates,
                   values, vi, oi, results, amortVars, returned, appVars>>

\* scenario_result, lines 148-166, and the append of the sweep
ScenarioReturn ==
    /\ pc = "scenario"
    /\ IsSweep
    /\ results' = Append(results,
                         SweepRow(ScenarioResult(scenario_inputs, RateOf(values[vi]), LevelAt,
                                                 ScenarioSummary(scenario_inputs, rows))))
    /\ IF call = "build_heatmap_data" /\ oi < Len(annual_overpayment_options)
       THEN oi' = oi + 1 /\ vi' = vi
       ELSE oi' = 1 /\ vi' = vi + 1
    /\ pc' = "sweep"
    /\ UNCHANGED <<call, inputs, scenario_range, annual_overpayment_options, base, rates,
                   values, scenario_inputs, error, amortVars, returned, appVars>>

\* return pd.DataFrame(rows)
SweepReturn ==
    /\ pc = "sweep"
    /\ ~Pending
    /\ pc' = "done"
    /\ UNCHANGED <<call, inputs, error, amortVars, sweepVars, returned, appVars>>

-----------------------------------------------------------------------------
(* The sweeps checked.                                                     *)

\* a loan over TermBound years with an annual overpayment, the same without
\* a loan, and inputs that validate_inputs refuses
SweptLoan  == MortgageInputs(QInt(0), QInt(1200), QInt(5), TermBound, QInt(0), QInt(0), QInt(500))
NoLoan     == MortgageInputs(QInt(0), QInt(0), QInt(5), TermBound, QInt(0), QInt(0), QInt(500))
RefusedLoan == MortgageInputs(QInt(0), QInt(1200), QInt(MaxRatePercent + 5), TermBound, QInt(0), QInt(0), QInt(500))

\* ranges: (3, 4, 0.5) and its swap; steps that do not divide the span; a
\* last point beyond 30; steps below the rounding unit; bounds with a fifth
\* decimal; a step of zero, a bound above 30, a span of more than 300 steps
SweepRanges ==
    {ScenarioRange(QInt(3), QInt(4), QFrac(1, 2)),
     ScenarioRange(QInt(4), QInt(3), QFrac(1, 2)),
     ScenarioRange(QInt(3), QInt(4), QFrac(2, 5)),
     ScenarioRange(QInt(3), QInt(4), QFrac(3, 5)),
     ScenarioRange(QInt(29), QInt(30), QFrac(3, 5)),
     ScenarioRange(QInt(0), QFrac(1, 10 ^ 4), QFrac(2, 10 ^ 5)),
     ScenarioRange(QInt(0), QFrac(4, 10 ^ 5), QFrac(2, 10 ^ 5)),
     ScenarioRange(QFrac(5, 10 ^ 5), QFrac(100005, 10 ^ 5), QInt(1)),
     ScenarioRange(QInt(3), QInt(4), QInt(0)),
     ScenarioRange(QInt(3), QInt(31), QInt(1)),
     ScenarioRange(QInt(0), QInt(30), QFrac(99, 1000))}

\* the widest range accepted: 300 steps
WideRanges == {ScenarioRange(QInt(0), QInt(30), QFrac(1, 10))}

\* the overpayment levels of build_heatmap_data
SweepLevels ==
    {<< >>, <<QInt(0), QInt(500)>>, <<QInt(500), QInt(0), QInt(500)>>, <<QInt(-1)>>}

SweepInit ==
    /\ call \in {"scenario_analysis", "build_heatmap_data"}
    /\ \/ inputs \in {SweptLoan, NoLoan, RefusedLoan} /\ scenario_range \in SweepRanges
       \/ inputs = NoLoan /\ scenario_range \in WideRanges
    /\ annual_overpayment_options \in
          IF call = "scenario_analysis" THEN {<< >>}
          ELSE IF scenario_range \in WideRanges THEN {<<QInt(500)>>}
          ELSE SweepLevels
    /\ pc = "call"
    /\ error = NoError
    /\ InitFrame

SweepNext ==
    \/ CallSweep
    \/ ScenarioStep
    \/ CallAmortization
    \/ LoopStep
    \/ LoopExit
    \/ ScenarioReturn
    \/ SweepReturn

SweepSpec == SweepInit /\ [][SweepNext]_vars

-----------------------------------------------------------------------------
(* Properties of the sweeps.                                               *)

\* both validations of the sweep have passed
Accepted == IsSweep /\ rates # << >>

\* the grid point low + (i - 1) * step of the validated range
GridPoint(i) == ArangeAt(rates.low_rate, rates.step, i)

\* the Rate % of the i-th row of the sweep
RateAt(i) == results[i].Rate

\* C4: for accepted inputs and an accepted range, every rate a sweep simulates
\* lies in [low, high] of the validated range, and the sweep does not fail
\* with the validation error of a grid rate ("Annual rate ...").
C4_RatesWithinRange ==
    Accepted =>
        /\ pc \in {"simulate", "loop", "scenario"} =>
              /\ QLe(rates.low_rate, scenario_inputs.annual_rate_percent)
              /\ QLe(scenario_inputs.annual_rate_percent, rates.high_rate)
        /\ pc = "raised" => error[1] # "Annual rate"

\* the span of the validated range in steps, (high - low) / step
StepsOf(r) == QDiv(QSub(r.high_rate, r.low_rate), r.step)

\* the span is a whole number of steps
IsMultiple(r) == BDivides(StepsOf(r).d, StepsOf(r).n)

\* x has no more than four decimals
FourDecimals(x) == QEq(RateOf(Round4(x)), x)

\* half of 0.0001
HalfUnit == QFrac(1, 2 * RateUnit)

\* scenario_analysis has returned for a range whose span is k steps
ReturnedMultiple ==
    /\ call = "scenario_analysis"
    /\ pc = "done"
    /\ IsMultiple(rates)

\* a scenario of scenario_analysis runs with the overpayment of the inputs
BaseOverpayment ==
    (call = "scenario_analysis" /\ pc \in {"loop", "scenario"}) =>
        QEq(checked.annual_overpayment, inputs.annual_overpayment)

\* C5 as stated: when high - low = k * step, scenario_analysis returns k + 1
\* rows whose Rate % are exactly low, low + step, ..., high, each computed
\* with the annual_overpayment of the base inputs.
C5_ExactGridPoints ==
    /\ ReturnedMultiple =>
          /\ Len(results) = ToNat(QFloor(StepsOf(rates))) + 1
          /\ \A i \in 1 .. Len(results) : QEq(RateAt(i), GridPoint(i))
    /\ BaseOverpayment

\* C5, amended: when high - low = k * step, scenario_analysis returns k + 1
\* rows; the Rate % of row i is low + (i - 1) * step rounded to 4 decimals (a
\* whole number of ten-thousandths at most 0.00005 away), which is
\* low + (i - 1) * step itself when low and step have at most 4 decimals;
\* each row is computed with the annual_overpayment of the base inputs.
C5_RoundedGridPoints ==
    /\ ReturnedMultiple =>
          /\ Len(results) = ToNat(QFloor(StepsOf(rates))) + 1
          /\ \A i \in 1 .. Len(results) :
                /\ FourDecimals(RateAt(i))
                /\ QLe(QAbs(QSub(RateAt(i), GridPoint(i))), HalfUnit)
          /\ (FourDecimals(rates.low_rate) /\ FourDecimals(rates.step)) =>
                \A i \in 1 .. Len(results) : QEq(RateAt(i), GridPoint(i))
    /\ BaseOverpayment

\* scenario_analysis returned the rows 3.0, 3.5, 4.0 for a loan that is
\* paid off with the help of the overpayment of the inputs
C5_Witness ==
    /\ ReturnedMultiple
    /\ ~IsZero(base.loan_amount)
    /\ Len(results) = 3
    /\ QEq(RateAt(1), QInt(3)) /\ QEq(RateAt(2), QFrac(7, 2)) /\ QEq(RateAt(3), QInt(4))
    /\ \A i \in 1 .. 3 : QLt(results[i].Months, QInt(TermBound * MonthsPerYear))

C7_AtMost300Points == Accepted => Len(values) <= MaxGridSteps

\* C7, amended: the rate grid of an accepted range has at most 301 points:
\* validation caps the steps (high - low) / step at 300, and a grid of 300
\* steps has 301 points.
C7_AtMost301Points == Accepted => Len(values) <= MaxGridSteps + 1

\* a sweep has built a grid of 301 points, from 0 to 30
C7_Witness ==
    /\ Accepted
    /\ Len(values) = MaxGridSteps + 1
    /\ values[1] = 0
    /\ values[MaxGridSteps + 1] = MaxRatePercent * RateUnit

\* the level of the k-th row, the levels running inside each rate
LevelOfRow(k) ==
    annual_overpayment_options[((k - 1) % Len(annual_overpayment_options)) + 1]

\* the rate of the k-th row
RateOfRow(k) == RateOf(values[((k - 1) \div Len(annual_overpayment_options)) + 1])

\* C8: build_heatmap_data returns |rate grid| * |levels| rows, one per pair,
\* the rates in grid order and inside each rate the levels in the order
\* given (nothing sorted, nothing dropped); the Annual Overpayment of every
\* row is one of the levels given.
C8_HeatmapShape ==
    (call = "build_heatmap_data" /\ pc = "done") =>
        /\ Len(results) = Len(values) * Len(annual_overpayment_options)
        /\ \A k \in 1 .. Len(results) :
              /\ QEq(results[k].Rate, RateOfRow(k))
              /\ results[k].AnnualOverpayment = LevelOfRow(k)
              /\ \E j \in 1 .. Len(annual_overpayment_options) :
                    results[k].AnnualOverpayment = annual_overpayment_options[j]

\* build_heatmap_data returned 6 rows for a grid of 3 points and 2 levels
C8_Witness ==
    /\ call = "build_heatmap_data"
    /\ pc = "done"
    /\ Len(values) = 3
    /\ Len(annual_overpayment_options) = 2
    /\ Len(results) = 6
    /\ ~IsZero(base.loan_amount)

-----------------------------------------------------------------------------
(* The validating calls: validate_inputs, validate_scenario_range and      *)
(* serialize_inputs called on their own.                                   *)

CallValidateInputs ==
    /\ pc = "call"
    /\ call = "validate_inputs"
    /\ \E v \in {validate_inputs(inputs)} :
          IF v.ok
          THEN pc' = "done" /\ returned' = v.val /\ UNCHANGED error
          ELSE pc' = "raised" /\ error' = v.error /\ UNCHANGED returned
    /\ UNCHANGED <<call, inputs, amortVars, sweepVars, appVars>>

CallValidateRange ==
    /\ pc = "call"
    /\ call = "validate_scenario_range"
    /\ \E v \in {validate_scenario_range(scenario_range)} :
          IF v.ok
          THEN pc' = "done" /\ returned' = v.val /\ UNCHANGED error
          ELSE pc' = "raised" /\ error' = v.error /\ UNCHANGED returned
    /\ UNCHANGED <<call, inputs, amortVars, sweepVars, appVars>>

\* MortgageInputs.deposit
Deposit(i) == QMax(QZero, QSub(i.property_value, i.loan_amount))

\* MortgageInputs.ltv_percent
LtvPercent(i) ==
    IF QLe(i.property_value, QZero) THEN QZero
    ELSE QMul(QDiv(i.loan_amount, i.property_value), QInt(PercentScale))

\* lines 225-228: asdict(checked) and the two derived entries
Serialized(i) ==
    [property_value      |-> i.property_value,
     loan_amount         |-> i.loan_amount,
     annual_rate_percent |-> i.annual_rate_percent,
     term_years          |-> i.term_years,
     annual_insurance    |-> i.annual_insurance,
     annual_ground_rent  |-> i.annual_ground_rent,
     annual_overpayment  |-> i.annual_overpayment,
     deposit             |-> Deposit(i),
     ltv_percent         |-> LtvPercent(i)]

CallSerialize ==
    /\ pc = "call"
    /\ call = "serialize_inputs"
    /\ \E v \in {validate_inputs(inputs)} :
          IF v.ok
          THEN pc' = "done" /\ returned' = Serialized(v.val) /\ UNCHANGED error
          ELSE pc' = "raised" /\ error' = v.error /\ UNCHANGED returned
    /\ UNCHANGED <<call, inputs, amortVars, sweepVars, appVars>>

\* the values a field is tried with
PropertyValues == {QInt(0), QInt(100), QInt(-1), NaN}
LoanAmounts    == {QInt(0), QInt(150), QFrac(1501, 10), PosInf}
RatePercents   == {QInt(0), QInt(MaxRatePercent), QFrac(MaxRatePercent * 10 ^ 4 + 1, 10 ^ 4), NegInf}
TermYears      == {MinTermYears - 1, MinTermYears, MaxTermYears, MaxTermYears + 1}
Insurances     == {QInt(0), QInt(-1)}
GroundRents    == {QInt(40), NaN}
Overpayments   == {QInt(0), QInt(-5)}

ValidationInputs ==
    {MortgageInputs(pv, loan, rate, term, ins, rent, over) :
        pv \in PropertyValues, loan \in LoanAmounts, rate \in RatePercents,
        term \in TermYears, ins \in Insurances, rent \in GroundRents, over \in Overpayments}

ValidationRanges ==
    {ScenarioRange(low, high, step) :
        low  \in {QInt(0), QInt(3), QInt(7), QInt(MaxRatePercent),
                  QFrac(MaxRatePercent * 10 ^ 4 + 1, 10 ^ 4), QInt(-1), NaN},
        high \in {QInt(0), QInt(3), QInt(7), QInt(MaxRatePercent), QInt(MaxRatePercent + 1),
                  PosInf},
        step \in {QInt(0), QFrac(1, 2), QFrac(1, 10), QFrac(999, 10 ^ 4), QInt(-1), NaN}}

\* the inputs the calculations are entered with: one-year loans that are
\* accepted, and one refused input for every check of validate_inputs
EntryInputs ==
    {MortgageInputs(QInt(1000), QInt(600), QInt(6), MinTermYears, QInt(100), QInt(40), QInt(0)),
     MortgageInputs(QInt(100), QInt(150), QInt(0), MinTermYears, QInt(0), QInt(0), QInt(50)),
     MortgageInputs(NaN, QInt(600), QInt(6), MinTermYears, QInt(0), QInt(0), QInt(0)),
     MortgageInputs(QInt(1000), QInt(-600), QInt(6), MinTermYears, QInt(0), QInt(0), QInt(0)),
     MortgageInputs(QInt(1000), QInt(600), QInt(MaxRatePercent + 5), MinTermYears, QInt(0), QInt(0), QInt(0)),
     MortgageInputs(QInt(1000), QInt(600), QInt(6), MinTermYears - 1, QInt(0), QInt(0), QInt(0)),
     MortgageInputs(QInt(1000), QInt(600), QInt(6), MaxTermYears + 1, QInt(0), QInt(0), QInt(0)),
     MortgageInputs(QInt(100), QInt(200), QInt(6), MinTermYears, QInt(0), QInt(0), QInt(0)),
     MortgageInputs(QInt(1000), QInt(600), QInt(6), MinTermYears, QInt(0), QInt(0), PosInf)}

\* the operations that start with validate_inputs
EntryCalls ==
    {"amortization_schedule", "scenario_analysis", "build_heatmap_data", "serialize_inputs"}

ValidationInit ==
    /\ \/ /\ call = "validate_inputs"
          /\ inputs \in ValidationInputs
          /\ scenario_range = << >>
          /\ annual_overpayment_options = << >>
       \/ /\ call = "validate_scenario_range"
          /\ inputs = << >>
          /\ scenario_range \in ValidationRanges
          /\ annual_overpayment_options = << >>
       \/ /\ call \in EntryCalls
          /\ inputs \in EntryInputs
          /\ scenario_range = IF IsSweep THEN ScenarioRange(QInt(3), QInt(4), QFrac(1, 2))
                                         ELSE << >>
          /\ annual_overpayment_options =
                IF call = "build_heatmap_data" THEN <<QInt(0), QInt(50)>> ELSE << >>
    /\ pc = "call"
    /\ error = NoError
    /\ InitFrame

ValidationNext ==
    \/ CallValidateInputs
    \/ CallValidateRange
    \/ CallSerialize
    \/ CallAmortization
    \/ LoopStep
    \/ LoopExit
    \/ CallSweep
    \/ ScenarioStep
    \/ ScenarioReturn
    \/ SweepReturn

ValidationSpec == ValidationInit /\ [][ValidationNext]_vars

-----------------------------------------------------------------------------
(* The claims on validation.                                               *)

\* a monetary or rate field that is not a finite number, or is below zero
BadField(x) == ~IsFinite(x) \/ QLt(x, QZero)

SomeBadField(i) ==
    \/ BadField(i.property_value)
    \/ BadField(i.loan_amount)
    \/ BadField(i.annual_rate_percent)
    \/ BadField(i.annual_insurance)
    \/ BadField(i.annual_ground_rent)
    \/ BadField(i.annual_overpayment)

\* the loan is more than one and a half times a positive property value
OverLent(i) ==
    /\ QGt(i.property_value, QZero)
    /\ QGt(QMul(QInt(2), i.loan_amount), QMul(QInt(3), i.property_value))

\* the inputs the claim says are refused
Invalid(i) ==
    \/ SomeBadField(i)
    \/ i.term_years < 1
    \/ i.term_years > 50
    \/ QGt(i.annual_rate_percent, QInt(30))
    \/ OverLent(i)

\* the call has ended, by a return or by a raise
Ended == pc \in {"done", "raised"}

\* C9: validate_inputs raises exactly when a monetary or rate field is not
\* finite or is negative, or the term is outside 1..50, or the rate is above
\* 30, or the loan is above 1.5 times a positive property value, and otherwise
\* returns the inputs with the same field values; amortization_schedule,
\* scenario_analysis, build_heatmap_data and serialize_inputs make the check
\* first, so with invalid inputs they raise and no schedule row and no sweep
\* row is ever made.
C9_ValidateInputs ==
    /\ (call = "validate_inputs" /\ Ended) =>
          /\ pc = "raised" <=> Invalid(inputs)
          /\ pc = "raised" => error # NoError /\ returned = << >>
          /\ pc = "done" => returned = inputs
    /\ (call \in EntryCalls /\ Invalid(inputs)) =>
          /\ pc \in {"call", "raised"}
          /\ pc = "raised" => error = validate_inputs(inputs).error /\ error # NoError
          /\ rows = << >>
          /\ results = << >>
          /\ returned = << >>
    /\ (call \in EntryCalls /\ ~Invalid(inputs) /\ pc # "call") =>
          /\ pc # "raised"
          /\ call = "amortization_schedule" => checked = inputs
          /\ IsSweep => base = inputs
          /\ call = "serialize_inputs" => returned.loan_amount = inputs.loan_amount

\* validate_inputs has refused inputs that are on every other limit for a
\* loan just above 1.5 times the property value
C9_Witness ==
    /\ call = "validate_inputs"
    /\ pc = "raised"
    /\ ~SomeBadField(inputs)
    /\ inputs.term_years = MaxTermYears
    /\ QEq(inputs.annual_rate_percent, QInt(MaxRatePercent))
    /\ OverLent(inputs)
    /\ error = <<"Loan amount", "is too high relative to property value">>

\* the range the claim says is refused
InvalidRange(r) ==
    \/ BadField(r.low_rate)
    \/ BadField(r.high_rate)
    \/ BadField(r.step)
    \/ QLe(r.step, QZero)
    \/ QGt(QMax(r.low_rate, r.high_rate), QInt(30))
    \/ QGt(QDiv(QSub(QMax(r.low_rate, r.high_rate), QMin(r.low_rate, r.high_rate)), r.step), QInt(300))

\* low is not above high
Normalized(r) == QLe(r.low_rate, r.high_rate)

\* C10: validate_scenario_range raises exactly when a field is not finite or
\* is negative, or step <= 0, or the larger of low and high is above 30, or
\* the span divided by the step is above 300; otherwise it returns the smaller
\* of the two rates as low, the larger as high and the step as given, and a
\* range that is already in order is returned unchanged, the returned range
\* included.
C10_ValidateScenarioRange ==
    (call = "validate_scenario_range" /\ Ended) =>
        /\ pc = "raised" <=> InvalidRange(scenario_range)
        /\ pc = "raised" => error # NoError /\ returned = << >>
        /\ pc = "done" =>
              /\ returned.low_rate = QMin(scenario_range.low_rate, scenario_range.high_rate)
              /\ returned.high_rate = QMax(scenario_range.low_rate, scenario_range.high_rate)
              /\ returned.step = scenario_range.step
              /\ returned.low_rate \in {scenario_range.low_rate, scenario_range.high_rate}
              /\ Normalized(returned)
              /\ Normalized(scenario_range) => returned = scenario_range
              /\ validate_scenario_range(returned) = Returned(returned)

\* the range of low 7 and high 3 has come back as low 3 and high 7
C10_Witness ==
    /\ call = "validate_scenario_range"
    /\ pc = "done"
    /\ scenario_range = ScenarioRange(QInt(7), QInt(3), QFrac(1, 2))
    /\ returned = ScenarioRange(QInt(3), QInt(7), QFrac(1, 2))

-----------------------------------------------------------------------------
(* service.py: annual_view.                                                *)

\* the columns of pd.DataFrame(rows): a table without rows has none
Columns(table) == IF table = << >> THEN {} ELSE DOMAIN table[1]

\* the smallest of a set of years
Least(S) == CHOOSE y \in S : \A z \in S : y <= z

\* the years of a set, ascending
RECURSIVE Ascending(_)
Ascending(S) == IF S = {} THEN << >> ELSE <<Least(S)>> \o Ascending(S \ {Least(S)})

\* the keys of groupby("Year"): the distinct years, sorted
YearKeys(table) == Ascending({table[i].Year : i \in DOMAIN table})

\* the rows of one group, in the order of the table
YearRows(table, y) == SelectSeq(table, LAMBDA row : row.Year = y)

\* lines 113-126: the sums of one group
GroupSums(group, y) ==
    [Year              |-> y,
     AnnualPayment     |-> Total(group, "Payment"),
     AnnualInterest    |-> Total(group, "Interest"),
     AnnualPrincipal   |-> Total(group, "Principal"),
     AnnualOverpayment |-> Total(group, "Overpayment")]

Grouped(table, keys) ==
    [k \in DOMAIN keys |-> The({GroupSums(group, keys[k]) : group \in {YearRows(table, keys[k])}})]

\* the Ending Balance of the first row of a group
GroupLast_first_row(group, y) == [Year |-> y, EndingBalance |-> group[1].EndingBalance]

\* line 127: last() of one group
GroupLast(group, y) == [Year |-> y, EndingBalance |-> group[Len(group)].EndingBalance]

EndingBalances(table, keys) ==
    [k \in DOMAIN keys |-> The({GroupLast(group, keys[k]) : group \in {YearRows(table, keys[k])}})]

\* the rows of the right table with the Year of a row of the left table
Matches(right, y) == SelectSeq(right, LAMBDA row : row.Year = y)

\* a row of the left table with the Ending Balance of a row of the right table
Joined(left_row, right_row) ==
    [Year              |-> left_row.Year,
     AnnualPayment     |-> left_row.AnnualPayment,
     AnnualInterest    |-> left_row.AnnualInterest,
     AnnualPrincipal   |-> left_row.AnnualPrincipal,
     AnnualOverpayment |-> left_row.AnnualOverpayment,
     EndingBalance     |-> right_row.EndingBalance]

\* the rows a row of the left table gives: one per match, or one with NaN
JoinRow(left_row, matches) ==
    IF matches = << >> THEN <<Joined(left_row, [EndingBalance |-> NaN])>>
    ELSE [j \in DOMAIN matches |-> Joined(left_row, matches[j])]

\* line 128: merge(on="Year", how="left"), the rows lo .. of the left table
RECURSIVE Merge(_, _, _)
Merge(left, right, lo) ==
    IF lo > Len(left) THEN << >>
    ELSE JoinRow(left[lo], Matches(right, left[lo].Year)) \o Merge(left, right, lo + 1)

AnnualRows(table, keys) ==
    The({Merge(left, right, 1) : left \in {Array(Grouped(table, keys))},
                                right \in {Array(EndingBalances(table, keys))}})

\* lines 112-128; groupby raises KeyError for a column the table has not
annual_view(table) ==
    IF "Year" \notin Columns(table) THEN Raised(<<"KeyError", "Year">>)
    ELSE The({Returned(AnnualRows(table, keys)) : keys \in {YearKeys(table)}})

-----------------------------------------------------------------------------
(* app.py: the main pipeline, lines 548-587: validate, simulate, summarize, *)
(* simulate the baseline without overpayment, summarize, annual view.       *)

IsApp == call = "app"

\* lines 562-570
NoOverpayInputs(i) ==
    MortgageInputs(i.property_value, i.loan_amount, i.annual_rate_percent, i.term_years,
                   i.annual_insurance, i.annual_ground_rent, QZero)

\* inputs.annual_insurance + inputs.annual_ground_rent
AnnualCosts(i) == QAdd(i.annual_insurance, i.annual_ground_rent)

\* kpi_row, lines 193-194
KpiRow(plan, baseline) ==
    [interest_saved |-> QSub(baseline.total_interest, plan.total_interest),
     years_saved    |-> QSub(baseline.years, plan.years)]

\* line 549, then the call of line 556
CallApp ==
    /\ pc = "call"
    /\ IsApp
    /\ \E v \in {validate_inputs(inputs)} :
          IF v.ok
          THEN /\ base' = v.val
               /\ scenario_inputs' = v.val
               /\ pc' = "simulate"
               /\ UNCHANGED error
          ELSE /\ pc' = "raised"
               /\ error' = v.error
               /\ UNCHANGED <<base, scenario_inputs>>
    /\ UNCHANGED <<call, inputs, scenario_range, annual_overpayment_options, rates, values,
                   vi, oi, results, amortVars, returned, appVars>>

\* lines 556-571: the schedule has come back; its summary, then the call for
\* the baseline
AppSchedule ==
    /\ pc = "scenario"
    /\ IsApp
    /\ summary = << >>
    /\ schedule' = rows
    /\ summary' = summarize_schedule(rows, AnnualCosts(base))
    /\ scenario_inputs' = NoOverpayInputs(base)
    /\ pc' = "simulate"
    /\ UNCHANGED <<call, inputs, error, scenario_range, annual_overpayment_options, base,
                   rates, values, vi, oi, results, amortVars, returned, baseline_schedule,
                   baseline_summary, monthly_base, kpi, annual>>

\* lines 571-587: the baseline has come back; its summary, the payment, the
\* figures of kpi_row, then annual_view
AppBaseline ==
    /\ pc = "scenario"
    /\ IsApp
    /\ summary # << >>
    /\ baseline_schedule' = rows
    /\ \E b \in {summarize_schedule(rows, AnnualCosts(base))} :
          /\ baseline_summary' = b
          /\ kpi' = KpiRow(summary, b)
    /\ monthly_base' = monthly_payment(base.loan_amount, base.annual_rate_percent,
                                       base.term_years)
    /\ \E a \in {annual_view(schedule)} :
          IF a.ok
          THEN annual' = a.val /\ pc' = "done" /\ UNCHANGED error
          ELSE pc' = "raised" /\ error' = a.error /\ UNCHANGED annual
    /\ UNCHANGED <<call, inputs, sweepVars, amortVars, returned, schedule, summary>>

\* the loans, rates and overpayments the pipeline is run with
AppLoans        == {QInt(0), QInt(1200)}
AppRates        == {QInt(0), QInt(6)}
AppOverpayments == {QInt(0), QInt(50), QInt(500)}
AppCosts        == {QInt(0), QInt(100)}

AppInputs ==
    {MortgageInputs(QInt(2000), loan, rate, term, ins, QInt(40), over) :
        loan \in AppLoans, rate \in AppRates, term \in 1 .. TermBound,
        over \in AppOverpayments, ins \in AppCosts}

AppInit ==
    /\ call = "app"
    /\ inputs \in AppInputs
    /\ scenario_range = << >>
    /\ annual_overpayment_options = << >>
    /\ pc = "call"
    /\ error = NoError
    /\ InitFrame

AppNext ==
    \/ CallApp
    \/ CallAmortization
    \/ LoopStep
    \/ LoopExit
    \/ AppSchedule
    \/ AppBaseline

AppSpec == AppInit /\ [][AppNext]_vars

-----------------------------------------------------------------------------
(* Properties of summarize_schedule and annual_view, on the schedules of   *)
(* the pipeline.                                                           *)

\* table[1][column] + ... + table[k][column]
RECURSIVE SumTo(_, _, _)
SumTo(table, column, k) ==
    IF k = 0 THEN QZero
    ELSE The({QAdd(before, table[k][column]) : before \in {SumTo(table, column, k - 1)}})

SumOf(table, column) == SumTo(table, column, Len(table))

\* every field of a summary is zero
AllZero(s) ==
    /\ IsZero(s.months) /\ IsZero(s.years) /\ IsZero(s.total_interest)
    /\ IsZero(s.total_paid_to_bank) /\ IsZero(s.total_overpayment)
    /\ IsZero(s.all_in_housing_cost)

\* s is the summary the claim describes for a table and annual costs
SummaryOf(s, table, annual_costs) ==
    IF table = << >> THEN AllZero(s)
    ELSE /\ QEq(s.months, QInt(table[Len(table)].Month))
         /\ QEq(QMul(s.years, QInt(12)), s.months)
         /\ QEq(s.total_interest, SumOf(table, "Interest"))
         /\ QEq(s.total_overpayment, SumOf(table, "Overpayment"))
         /\ QEq(s.total_paid_to_bank, QAdd(SumOf(table, "Payment"), SumOf(table, "Overpayment")))
         /\ QEq(s.all_in_housing_cost, QAdd(s.total_paid_to_bank, QMul(annual_costs, s.years)))

\* C11: summarize_schedule gives a summary of zeros for an empty schedule,
\* whatever the annual costs; for a schedule with rows, months is the Month of
\* the last row, years is months / 12, total_interest and total_overpayment
\* are the sums of the Interest and Overpayment columns, total_paid_to_bank is
\* the sum of Payment plus the sum of Overpayment, and all_in_housing_cost is
\* total_paid_to_bank + annual_costs * years.
C11_Summary ==
    /\ summary # << >> => SummaryOf(summary, schedule, AnnualCosts(base))
    /\ baseline_summary # << >> =>
          SummaryOf(baseline_summary, baseline_schedule, AnnualCosts(base))

\* a schedule with interest and overpayments has been summarized, and the
\* annual costs are not zero
C11_Witness ==
    /\ summary # << >>
    /\ schedule # << >>
    /\ ~IsZero(summary.total_interest)
    /\ ~IsZero(summary.total_overpayment)
    /\ ~IsZero(AnnualCosts(base))
    /\ QGt(summary.all_in_housing_cost, summary.total_paid_to_bank)

\* the sum of a column over the rows 1 .. k of a table that are of year y
RECURSIVE YearSumTo(_, _, _, _)
YearSumTo(table, column, y, k) ==
    IF k = 0 THEN QZero
    ELSE IF table[k].Year # y THEN YearSumTo(table, column, y, k - 1)
    ELSE The({QAdd(before, table[k][column]) : before \in {YearSumTo(table, column, y, k - 1)}})

YearSum(table, column, y) == YearSumTo(table, column, y, Len(table))

\* the years present in a table
YearsIn(table) == {table[i].Year : i \in DOMAIN table}

\* the row of the last month of year y
LastOfYear(table, y) ==
    CHOOSE i \in DOMAIN table :
        /\ table[i].Year = y
        /\ \A j \in DOMAIN table : table[j].Year = y => table[j].Month <= table[i].Month

\* a is the annual row the claim describes for its year
AnnualRowOf(a, table) ==
    /\ a.Year \in YearsIn(table)
    /\ QEq(a.AnnualPayment, YearSum(table, "Payment", a.Year))
    /\ QEq(a.AnnualInterest, YearSum(table, "Interest", a.Year))
    /\ QEq(a.AnnualPrincipal, YearSum(table, "Principal", a.Year))
    /\ QEq(a.AnnualOverpayment, YearSum(table, "Overpayment", a.Year))
    /\ QEq(a.EndingBalance, table[LastOfYear(table, a.Year)].EndingBalance)

\* C12: for a schedule with rows that amortization_schedule returned,
\* annual_view returns one row for every Year of the schedule, the years
\* ascending; the Annual Payment, Interest, Principal and Overpayment of a row
\* are the sums over the months of its year, its Ending Balance is that of
\* the last month of the year; the annual sums add up to the totals of the
\* schedule.
C12_AnnualView ==
    (IsApp /\ pc = "done") =>
        /\ Len(annual) = Cardinality(YearsIn(schedule))
        /\ \A k \in 1 .. Len(annual) - 1 : annual[k].Year < annual[k + 1].Year
        /\ \A k \in 1 .. Len(annual) : AnnualRowOf(annual[k], schedule)
        /\ QEq(SumOf(annual, "AnnualPayment"), SumOf(schedule, "Payment"))
        /\ QEq(SumOf(annual, "AnnualInterest"), SumOf(schedule, "Interest"))
        /\ QEq(SumOf(annual, "AnnualPrincipal"), SumOf(schedule, "Principal"))
        /\ QEq(SumOf(annual, "AnnualOverpayment"), SumOf(schedule, "Overpayment"))

\* the annual view of a schedule that ends inside its second year, after an
\* overpayment in the first
C12_Witness ==
    /\ IsApp
    /\ pc = "done"
    /\ Len(annual) = 2
    /\ Len(schedule) > MonthsPerYear
    /\ Len(schedule) % MonthsPerYear # 0
    /\ ~IsZero(annual[1].AnnualOverpayment)
    /\ ~IsZero(annual[1].EndingBalance)
    /\ IsZero(annual[2].EndingBalance)

\* C14: for accepted inputs with a loan of 0 the pipeline of validation,
\* simulation and aggregation ends without an error: the schedule is empty,
\* the summary is all zeros, and annual_view of the empty schedule returns a
\* table without rows.
C14_ZeroLoanPipeline ==
    (IsApp /\ ~Invalid(inputs) /\ IsZero(inputs.loan_amount)) =>
        /\ pc # "raised"
        /\ error = NoError
        /\ summary # << >> => schedule = << >> /\ AllZero(summary)
        /\ pc = "done" => annual = << >>

-----------------------------------------------------------------------------
(* monthly_payment called on its own, also outside the validated ranges.   *)

CallMonthlyPayment ==
    /\ pc = "call"
    /\ call = "monthly_payment"
    /\ returned' = monthly_payment(inputs.principal, inputs.annual_rate_percent,
                                   inputs.term_years)
    /\ pc' = "done"
    /\ UNCHANGED <<call, inputs, error, amortVars, sweepVars, appVars>>

PaymentPrincipals == {QInt(-100), QInt(0), QFrac(1, 100), QInt(1200), QInt(120000)}
PaymentRates      == {QInt(0), QFrac(7, 2), QInt(6), QInt(MaxRatePercent)}
PaymentTerms      == {-1, 0, 1, 2, 10}

PaymentInit ==
    /\ call = "monthly_payment"
    /\ inputs \in [principal : PaymentPrincipals, annual_rate_percent : PaymentRates,
                    term_years : PaymentTerms]
    /\ scenario_range = << >>
    /\ annual_overpayment_options = << >>
    /\ pc = "call"
    /\ error = NoError
    /\ InitFrame

PaymentNext == CallMonthlyPayment

PaymentSpec == PaymentInit /\ [][PaymentNext]_vars

\* C13: monthly_payment returns 0 when principal <= 0 or term_years * 12 <= 0;
\* for principal > 0, term_years >= 1 and a rate of zero it returns exactly
\* principal / (term_years * 12), so 1000 for 120000 at 0% over 10 years; for
\* inputs that are not negative the result is not negative.
C13_MonthlyPayment ==
    (call = "monthly_payment" /\ pc = "done") =>
        /\ (QLe(inputs.principal, QZero) \/ inputs.term_years * 12 <= 0) => IsZero(returned)
        /\ (QGt(inputs.principal, QZero) /\ inputs.term_years >= 1
                /\ IsZero(inputs.annual_rate_percent)) =>
              QEq(QMul(returned, QInt(inputs.term_years * 12)), inputs.principal)
        /\ (QGe(inputs.principal, QZero) /\ inputs.term_years >= 0) => QGe(returned, QZero)
        /\ (QEq(inputs.principal, QInt(120000)) /\ inputs.term_years = 10
                /\ IsZero(inputs.annual_rate_percent)) => QEq(returned, QInt(1000))

\* 120000 at 0% over 10 years has given 1000
C13_Witness ==
    /\ call = "monthly_payment"
    /\ pc = "done"
    /\ QEq(inputs.principal, QInt(120000))
    /\ IsZero(inputs.annual_rate_percent)
    /\ inputs.term_years = 10
    /\ QEq(returned, QInt(1000))

-----------------------------------------------------------------------------
(* Properties of the rows of amortization_schedule.                        *)

\* the balance a row starts from: the loan, or the Ending Balance before it
CarriedBalance(i) == IF i = 1 THEN checked.loan_amount ELSE rows[i - 1].EndingBalance

\* C15: the rows are emitted in the order of the months: row i has Month i
\* and Year ceil(Month / 12); the Starting Balance of the first row is the
\* loan amount and that of a later row is the Ending Balance of the row
\* before; in every row 0 <= Ending Balance <= Starting Balance.
C15_ConsecutiveRows ==
    /\ [][rows' # rows => rows' = Append(rows, rows'[Len(rows')])]_vars
    /\ [](pc = "done" =>
            \A i \in 1 .. Len(rows) :
                /\ rows[i].Month = i
                /\ rows[i].Year * 12 >= rows[i].Month
                /\ (rows[i].Year - 1) * 12 < rows[i].Month
                /\ QEq(rows[i].StartingBalance, CarriedBalance(i))
                /\ QGe(rows[i].EndingBalance, QZero)
                /\ QLe(rows[i].EndingBalance, rows[i].StartingBalance))

\* a schedule of more than a year has been returned, with an overpayment in
\* month 12 that lowered the balance of month 13
C15_Witness ==
    /\ call = "amortization_schedule"
    /\ pc = "done"
    /\ Len(rows) > 12
    /\ rows[12].Year = 1 /\ rows[13].Year = 2
    /\ ~IsZero(rows[12].Overpayment)
    /\ QLt(rows[13].StartingBalance, AfterPrincipal(rows[12]))

\* the principal the claim gives for a row
ClaimedPrincipal(row) ==
    IF QGt(monthly_rate, QZero)
    THEN QMin(row.StartingBalance, QSub(standard_monthly, row.Interest))
    ELSE QMin(row.StartingBalance, standard_monthly)

\* C16: in every row Interest = Starting Balance * monthly_rate, Principal =
\* min(Starting Balance, standard payment - Interest) at a positive rate and
\* min(Starting Balance, standard payment) at a rate of zero, with
\* 0 <= Principal <= Starting Balance, and Payment = Principal + Interest;
\* every row but the last has a Payment equal to the standard monthly
\* payment, and no Payment is above it.
C16_RowAmounts ==
    pc = "done" =>
        \A i \in 1 .. Len(rows) :
            /\ QEq(rows[i].Interest, QMul(rows[i].StartingBalance, monthly_rate))
            /\ QEq(rows[i].Principal, ClaimedPrincipal(rows[i]))
            /\ QGe(rows[i].Principal, QZero)
            /\ QLe(rows[i].Principal, rows[i].StartingBalance)
            /\ QEq(rows[i].Payment, QAdd(rows[i].Principal, rows[i].Interest))
            /\ i < Len(rows) => QEq(rows[i].Payment, standard_monthly)
            /\ QLe(rows[i].Payment, standard_monthly)

\* a schedule at a positive rate has been returned whose last Payment is
\* below the standard payment, the rows before it paying the standard one
C16_Witness ==
    /\ call = "amortization_schedule"
    /\ pc = "done"
    /\ Len(rows) >= 2
    /\ QGt(monthly_rate, QZero)
    /\ QLt(LastRow.Payment, standard_monthly)
    /\ QEq(rows[1].Payment, standard_monthly)
    /\ QLt(rows[1].Principal, rows[1].StartingBalance)

-----------------------------------------------------------------------------
(* The two stops of the loop.  For accepted inputs the balance test ends   *)
(* the loop first (C2), so the loop of lines 41-81 is run here from line   *)
(* 41 with a standard payment that is left free: 0 or 1e-10 (a principal   *)
(* component below 1e-9 every month), 1e-9 (a principal component that is  *)
(* not below 1e-9, on a balance that stays), or the payment of line 30.    *)

StalledLoan(rate) ==
    MortgageInputs(QInt(1000), QInt(600), rate, MinTermYears, QInt(0), QInt(0), QInt(0))

StandardPayments(i) ==
    {QZero, QDiv(PrincipalEps, QInt(10)), PrincipalEps,
     monthly_payment(i.loan_amount, i.annual_rate_percent, i.term_years)}

StallInit ==
    /\ call = "amortization_schedule"
    /\ \/ inputs = StalledLoan(QInt(0)) /\ standard_monthly \in StandardPayments(inputs)
       \/ inputs = StalledLoan(QInt(6)) /\ standard_monthly = QZero
    /\ scenario_range = << >>
    /\ annual_overpayment_options = << >>
    /\ pc = "loop"
    /\ error = NoError
    /\ checked = inputs
    /\ balance = inputs.loan_amount
    /\ monthly_rate = MonthlyRate(inputs.annual_rate_percent)
    /\ rows = << >>
    /\ month = 0
    /\ total_interest = QZero
    /\ total_principal = QZero
    /\ total_overpay = QZero
    /\ max_months = inputs.term_years * MonthsPerYear
    /\ stop = "none"
    /\ base = << >> /\ rates = << >> /\ values = << >> /\ vi = 0 /\ oi = 0
    /\ scenario_inputs = << >> /\ results = << >> /\ returned = << >>
    /\ schedule = << >> /\ summary = << >> /\ baseline_schedule = << >>
    /\ baseline_summary = << >> /\ monthly_base = << >> /\ kpi = << >> /\ annual = << >>

StallNext ==
    \/ LoopStep
    \/ LoopExit

StallSpec == StallInit /\ [][StallNext]_vars

\* the last row is beyond term_months + 600 with a Principal below 1e-9
Stalled ==
    /\ rows # << >>
    /\ LastRow.Month > max_months + 600
    /\ QLt(LastRow.Principal, QFrac(1, 10 ^ 9))

\* C17: whatever the principal of each month, the loop emits at most
\* term_months + 1200 rows, and it stops right after the first row whose
\* Month is beyond term_months + 600 and whose Principal is below 1e-9; both
\* stops act while the balance is still above the threshold of the balance
\* test.
C17_LoopStops ==
    /\ Len(rows) <= max_months + 1200
    /\ month <= max_months + 1200
    /\ pc = "loop" => ~Stalled
    /\ stop = "stall" <=> (pc = "done" /\ Stalled)
    /\ stop = "cap" <=> (pc = "done" /\ ~Stalled /\ Len(rows) = max_months + 1200
                            /\ QGt(balance, BalanceEps))

\* the loop has been stopped in month term_months + 601 on a principal of 0,
\* with the whole loan still owed
C17_Witness ==
    /\ pc = "done"
    /\ stop = "stall"
    /\ Len(rows) = max_months + StallCapMonths + 1
    /\ IsZero(LastRow.Principal)
    /\ QEq(balance, checked.loan_amount)

\* the loop has been stopped by the hard cap after term_months + 1200 rows
HardCapReached ==
    /\ pc = "done"
    /\ stop = "cap"
    /\ Len(rows) = max_months + HardCapMonths
    /\ QGt(balance, BalanceEps)

-----------------------------------------------------------------------------
(* Conservation along a schedule.                                          *)

\* the sums of the first 1, 2, ..., k entries of a column
RECURSIVE PrefixSums(_, _, _)
PrefixSums(table, column, k) ==
    IF k = 0 THEN << >>
    ELSE IF k = 1 THEN <<table[1][column]>>
    ELSE The({Append(p, QAdd(p[k - 1], table[k][column])) : p \in {PrefixSums(table, column, k - 1)}})

\* the cumulative column of a table holds the prefix sums p
IsCumulative(table, cumulative, p) ==
    \A i \in 1 .. Len(table) : QEq(table[i][cumulative], p[i])

\* every Ending Balance is the loan less what has been repaid so far
BalanceAccounted(table, loan) ==
    \A i \in 1 .. Len(table) :
        QEq(table[i].EndingBalance,
            QSub(QSub(loan, table[i].CumulativePrincipal), table[i].CumulativeOverpayment))

\* money is conserved along a table with the summary s
Conserved(table, s, loan) ==
    /\ IsCumulative(table, "CumulativeInterest", PrefixSums(table, "Interest", Len(table)))
    /\ IsCumulative(table, "CumulativePrincipal", PrefixSums(table, "Principal", Len(table)))
    /\ IsCumulative(table, "CumulativeOverpayment", PrefixSums(table, "Overpayment", Len(table)))
    /\ BalanceAccounted(table, loan)
    /\ (table # << >> /\ IsZero(table[Len(table)].EndingBalance)) =>
          QEq(s.total_paid_to_bank, QAdd(loan, s.total_interest))

\* C18: in every row of a schedule the Cumulative Interest, Cumulative
\* Principal and Cumulative Overpayment are the sums of the Interest,
\* Principal and Overpayment of the rows up to it, and Ending Balance =
\* loan_amount - Cumulative Principal - Cumulative Overpayment; when the last
\* Ending Balance is 0, total_paid_to_bank of the summary is loan_amount +
\* total_interest.
C18_Conservation ==
    (IsApp /\ pc = "done") =>
        /\ Conserved(schedule, summary, base.loan_amount)
        /\ Conserved(baseline_schedule, baseline_summary, base.loan_amount)

\* a loan at a positive rate with overpayments is paid off: what was paid
\* to the bank is the loan and the interest
C18_Witness ==
    /\ IsApp
    /\ pc = "done"
    /\ IsZero(schedule[Len(schedule)].EndingBalance)
    /\ ~IsZero(summary.total_overpayment)
    /\ ~IsZero(summary.total_interest)
    /\ QEq(summary.total_paid_to_bank, QAdd(base.loan_amount, summary.total_interest))

-----------------------------------------------------------------------------
(* Two simulations side by side: amortization_schedule and                 *)
(* summarize_schedule on two inputs that differ in annual_overpayment only, *)
(* compared as kpi_row compares the plan with its baseline.                 *)

IsCompare == call = "compare"

\* the input with the lower overpayment and the one with the higher
Lower(pair)  == pair[1]
Higher(pair) == pair[2]

\* the first call: the simulation with the higher overpayment
CallCompare ==
    /\ pc = "call"
    /\ IsCompare
    /\ base' = Higher(inputs)
    /\ scenario_inputs' = Higher(inputs)
    /\ pc' = "simulate"
    /\ UNCHANGED <<call, inputs, error, scenario_range, annual_overpayment_options, rates,
                   values, vi, oi, results, amortVars, returned, appVars>>

\* the first schedule has come back; its summary, then the call with the
\* lower overpayment
CompareHigher ==
    /\ pc = "scenario"
    /\ IsCompare
    /\ summary = << >>
    /\ schedule' = rows
    /\ summary' = summarize_schedule(rows, AnnualCosts(base))
    /\ scenario_inputs' = Lower(inputs)
    /\ pc' = "simulate"
    /\ UNCHANGED <<call, inputs, error, scenario_range, annual_overpayment_options, base,
                   rates, values, vi, oi, results, amortVars, returned, baseline_schedule,
                   baseline_summary, monthly_base, kpi, annual>>

\* the second schedule has come back; its summary and the two differences
\* of kpi_row
CompareLower ==
    /\ pc = "scenario"
    /\ IsCompare
    /\ summary # << >>
    /\ baseline_schedule' = rows
    /\ \E b \in {summarize_schedule(rows, AnnualCosts(base))} :
          /\ baseline_summary' = b
          /\ kpi' = KpiRow(summary, b)
    /\ pc' = "done"
    /\ UNCHANGED <<call, inputs, error, sweepVars, amortVars, returned, schedule, summary,
                   monthly_base, annual>>

\* overpayments below, at and above what is left after a year
CompareOverpayments == {QInt(0), QInt(50), QInt(700)}

ComparePairs ==
    {<<MortgageInputs(QInt(2000), loan, rate, term, QInt(100), QInt(40), a),
       MortgageInputs(QInt(2000), loan, rate, term, QInt(100), QInt(40), b)>> :
        loan \in AppLoans, rate \in AppRates, term \in 1 .. TermBound,
        a \in CompareOverpayments, b \in CompareOverpayments}

CompareInit ==
    /\ call = "compare"
    /\ inputs \in {pair \in ComparePairs :
                      QLe(Lower(pair).annual_overpayment, Higher(pair).annual_overpayment)}
    /\ scenario_range = << >>
    /\ annual_overpayment_options = << >>
    /\ pc = "call"
    /\ error = NoError
    /\ InitFrame

CompareNext ==
    \/ CallCompare
    \/ CallAmortization
    \/ LoopStep
    \/ LoopExit
    \/ CompareHigher
    \/ CompareLower

CompareSpec == CompareInit /\ [][CompareNext]_vars

\* the balance a schedule leaves at the end of month m: once the schedule has
\* ended, the balance it ended on
BalanceAfter(table, loan, m) ==
    IF table = << >> THEN loan
    ELSE IF m <= Len(table) THEN table[m].EndingBalance
    ELSE table[Len(table)].EndingBalance

\* C19: for two valid inputs that differ only in annual_overpayment, a <= b,
\* the balance under b is at most the balance under a at the end of every
\* month, the schedule under b has at most as many months as the one under a,
\* the total interest under b is at most that under a, and the interest
\* saved and the years saved are never negative.
C19_OverpayingNeverHurts ==
    (IsCompare /\ pc = "done") =>
        /\ \A m \in 1 .. Len(baseline_schedule) :
              QLe(BalanceAfter(schedule, base.loan_amount, m),
                  baseline_schedule[m].EndingBalance)
        /\ Len(schedule) <= Len(baseline_schedule)
        /\ QLe(summary.months, baseline_summary.months)
        /\ QLe(summary.total_interest, baseline_summary.total_interest)
        /\ QGe(kpi.interest_saved, QZero)
        /\ QGe(kpi.years_saved, QZero)

\* two overpayments above zero, the higher one ending the loan earlier and
\* with less interest
C19_Witness ==
    /\ IsCompare
    /\ pc = "done"
    /\ QGt(Lower(inputs).annual_overpayment, QZero)
    /\ QLt(Lower(inputs).annual_overpayment, Higher(inputs).annual_overpayment)
    /\ Len(schedule) < Len(baseline_schedule)
    /\ QGt(kpi.interest_saved, QZero)
    /\ QGt(kpi.years_saved, QZero)

=============================================================================
